---- MODULE Spec2Model ----
(***************************************************************************)
(* A model of tricklejs: Stream, its broadcast and filtering variants and  *)
(* StreamSubscription, with the nextTick queue that defers every delivery; *)
(* the aggregators every and forEach, StreamController.addStream and       *)
(* Stream.fromPromises, with the promises they return or consume.          *)
(*                                                                         *)
(* The program is single threaded.  Its state changes in three ways:       *)
(*   - user code calls an operation (listen, add, addError, close on a     *)
(*     stream; pause, resume, cancel on a subscription it holds);          *)
(*   - the host runs the next callback of the nextTick queue;              *)
(*   - a listener callback that was invoked returns.                       *)
(* User code runs at top level (a synchronous block, which the queue never *)
(* interrupts: the queue is drained only after the block has ended) and    *)
(* inside listener callbacks, where it may call the same operations.       *)
(* The code between two points where user code runs is deterministic and   *)
(* is executed by Run in one step; the frames of the calls that are still  *)
(* active (the forEach loops of the flushes) are kept on an explicit       *)
(* stack.                                                                  *)
(***************************************************************************)
EXTENDS Integers, Sequences, FiniteSets, TLC

\* The number of operations user code calls in one run.
MaxOps == 5

\* The largest number of promises in the iterable given to fromPromises.
MaxPromises == 3

\* The n of take(n) in the topology with a take stream.
TakeAmount == 2

\* The n of skip(n) in the topology with a skip stream.
SkipAmount == 1

VARIABLES
  kind,          \* kind[st]: the class of stream object st: "base",
                 \* "broadcast", "take", "takeWhile", "skip", "skipWhile",
                 \* "where" or "map"
  buffer,        \* Stream._buffer
  isClosed,      \* Stream._isClosed
  isPaused,      \* Stream._isPaused
  subscription,  \* Stream._subscription (NoSub is null)
  psub,          \* _filteringStream._sub, _broadcastStream._parentSubscription
  subscribers,   \* _broadcastStream._subscribers, in insertion order
  taken,         \* _takeStream._taken
  skipped,       \* _skipStream._skipped
  isSkipping,    \* _skipWhileStream._isSkipping
  verdict,       \* verdict[v]: what the condition of the topology's derived
                 \* stream does on value v: "true", "false" or "throw"
  subs,          \* the StreamSubscription objects created so far
  queue,         \* the callbacks handed to nextTick and not yet run
  stack,         \* the active forEach loops, innermost last
  phase,         \* "sync": a synchronous block runs; "drain": the queue runs
  crashed,       \* an exception escaped a nextTick callback
  obs,           \* per subscription: what its callbacks have seen
  hookFired,     \* per stream and hook name: how often the hook has run
  accepted,      \* per stream: the Data and Error messages it has accepted
  nDone,         \* per stream: how many Done messages it has produced
  nextVal,       \* the value the next accepted add or addError call carries
  future,        \* the promise of the aggregator or of addStream: which call
                 \* made it, the subscription whose callbacks settle it, its
                 \* state and the value it was settled with
  promises,      \* fromPromises: its count, and per promise of the iterable
                 \* whether the reaction registered on it has run
  last           \* the last operation user code called, and how it ended

vars == <<kind, buffer, isClosed, isPaused, subscription, psub, subscribers,
          taken, skipped, isSkipping, verdict, subs, queue, stack, phase,
          crashed, obs, hookFired, accepted, nDone, nextVal, future, promises,
          last>>

NoSub == 0

HookNames == {"onListen", "onPause", "onResume", "onCancel"}

\* createDataMessage, createErrorMessage, createDoneMessage.  Values and
\* errors are numbered by the call that carried them.
DataMsg(v) == [type |-> "Data", data |-> v]
ErrorMsg(v) == [type |-> "Error", data |-> v]
DoneMsg == [type |-> "Done", data |-> 0]

\* The whole state as one record, so that the calls the code makes one after
\* the other compose as functions.  exc is the exception being thrown ("" for
\* none) and ret the value the last listen returned.
Cur ==
  [kind |-> kind, buffer |-> buffer, isClosed |-> isClosed,
   isPaused |-> isPaused, subscription |-> subscription, psub |-> psub,
   subscribers |-> subscribers, taken |-> taken, skipped |-> skipped,
   isSkipping |-> isSkipping, verdict |-> verdict, subs |-> subs,
   queue |-> queue, stack |-> stack, phase |-> phase, crashed |-> crashed,
   obs |-> obs, hookFired |-> hookFired, accepted |-> accepted,
   nDone |-> nDone, nextVal |-> nextVal, future |-> future,
   promises |-> promises, last |-> last, exc |-> "", ret |-> NoSub]

Streams == DOMAIN kind

\* The stream a derived or broadcast stream was made from.
ParentOf(st) == st - 1

Throw(R, e) == [R EXCEPT !.exc = e]

\* The values a promise is settled with: a boolean (data is 1 for true), the
\* Error the stream carried (data is its number), what the callback threw on
\* value data, the exception a call threw, or undefined.
NoValue == [tag |-> "undefined", data |-> 0]
BoolValue(b) == [tag |-> "boolean", data |-> IF b THEN 1 ELSE 0]
ErrorValue(e) == [tag |-> "error", data |-> e]
ThrownValue(v) == [tag |-> "thrown", data |-> v]
ExceptionValue == [tag |-> "exception", data |-> 0]

\* No aggregator has been called.
NoFuture == [by |-> "", s |-> NoSub, state |-> "", value |-> NoValue]

\* The stream was not made by fromPromises.
NoPromises == [count |-> 0, inputs |-> <<>>]

----------------------------------------------------------------------------
(* The call stack.  A frame is an active forEach: of a deferred flush of a *)
(* stream (tick), of a deferred fan-out of a broadcast stream (fan), or of *)
(* StreamSubscription._emit (emit).                                        *)

TickFrame(st, n) ==
  [kind |-> "tick", st |-> st, s |-> NoSub, arr |-> <<>>, i |-> 1, n |-> n,
   cb |-> FALSE, msg |-> DoneMsg, visited |-> {}]

EmitFrame(s, arr) ==
  [kind |-> "emit", st |-> 0, s |-> s, arr |-> arr, i |-> 1, n |-> Len(arr),
   cb |-> FALSE, msg |-> DoneMsg, visited |-> {}]

FanFrame(st, m) ==
  [kind |-> "fan", st |-> st, s |-> NoSub, arr |-> <<>>, i |-> 1, n |-> 0,
   cb |-> FALSE, msg |-> m, visited |-> {}]

Top(R) == R.stack[Len(R.stack)]

SetTop(R, f) == [R EXCEPT !.stack[Len(R.stack)] = f]

Push(R, f) == [R EXCEPT !.stack = Append(@, f)]

Pop(R) == [R EXCEPT !.stack = SubSeq(@, 1, Len(@) - 1)]

----------------------------------------------------------------------------
(* stream_utils.nextTick and the base Stream                               *)

NextTick(R, task) == [R EXCEPT !.queue = Append(@, task)]

EmitTask(st) == [type |-> "emit", st |-> st, msg |-> DoneMsg]
FanTask(st, m) == [type |-> "fan", st |-> st, msg |-> m]
HookTask(st, name) == [type |-> name, st |-> st, msg |-> DoneMsg]

\* A Stream._emit that flushes inside the call.
StreamEmitNow(R, st) ==
  IF R.isPaused[st] \/ R.subscription[st] = NoSub
  THEN R
  ELSE Push(R, TickFrame(st, Len(R.buffer[st])))

\* Stream._emit: the guard is evaluated at the call, the flush is deferred.
StreamEmit(R, st) ==
  IF R.isPaused[st] \/ R.subscription[st] = NoSub
  THEN R
  ELSE NextTick(R, EmitTask(st))

\* Stream._callEventListeners
CallEventListeners(R, st, name) == NextTick(R, HookTask(st, name))

\* Observation: cancel is being called on subscription s.  by tells who calls
\* it: "user" (user code), "error" (cancelOnError), "close" (the stream, after
\* it has flushed its Done) or "child" (the derived or broadcast stream that
\* holds s on its parent).  cancelledAt keeps how many callbacks s had seen
\* when it was first cancelled, and by who cancelled it first.
NoteCancel(R, s, by) ==
  IF R.obs[s].cancelledAt # -1
  THEN R
  ELSE [R EXCEPT !.obs[s].cancelledAt = Len(R.obs[s].delivered),
                 !.obs[s].by = by]

\* Stream.cancel(_): the argument is not looked at.
StreamCancel(R, st, s) ==
  CallEventListeners([R EXCEPT !.subscription[st] = NoSub], st, "onCancel")

NewSub(st, coe, fwd) ==
  [stream |-> st, buffer |-> <<>>, isPaused |-> FALSE,
   cancelOnError |-> coe, fwd |-> fwd]

\* What is observed of a subscription: the messages its callbacks were
\* invoked with, in order; how often its onPause and onResume callbacks ran;
\* how many messages its stream had accepted when it was created; the
\* messages its stream accepted while it was attached and paused; whether
\* its stream was closed when it was created; the number the next added value
\* would get when it was created; and, on a broadcast stream, the messages
\* whose fan-out began while it was subscribed and not paused.
NewObs(before, closed, born) ==
  [delivered |-> <<>>, cancelledAt |-> -1, by |-> "",
   nPause |-> 0, nResume |-> 0, before |-> before, held |-> <<>>,
   afterClose |-> closed, born |-> born, due |-> <<>>]

\* new StreamSubscription(stream, onData, callbacks).  fwd is 0 for a listener
\* of user code, and the stream whose add/addError/close are the callbacks of
\* a subscription a derived or broadcast stream holds on its parent.
CreateSub(R, st, coe, fwd) ==
  [R EXCEPT !.subs = Append(@, NewSub(st, coe, fwd)),
            !.obs = Append(@, NewObs(Len(R.accepted[st]), R.isClosed[st],
                                     R.nextVal)),
            !.ret = Len(R.subs) + 1]

\* Stream.listen
StreamListen(R, st, coe, fwd) ==
  IF R.subscription[st] # NoSub
  THEN Throw(R, "ErrorForListen")
  ELSE LET R1 == CreateSub(R, st, coe, fwd)
           R2 == [R1 EXCEPT !.subscription[st] = R1.ret]
       IN StreamEmit(CallEventListeners(R2, st, "onListen"), st)

\* Observation: the stream accepts message m.
Accept(R, st, m) ==
  LET s == R.subscription[st]
      R1 == [R EXCEPT !.accepted[st] = Append(@, m)]
  IN IF s # NoSub /\ R.subs[s].isPaused
     THEN [R1 EXCEPT !.obs[s].held = Append(@, m)]
     ELSE R1

\* A Stream.add that puts the message at the front of the buffer.
StreamAddAtFront(R, st, v) ==
  IF R.isClosed[st]
  THEN Throw(R, "ErrorForAdd")
  ELSE StreamEmit([Accept(R, st, DataMsg(v)) EXCEPT
                     !.buffer[st] = <<DataMsg(v)>> \o @], st)

\* Stream.add
StreamAdd(R, st, v) ==
  IF R.isClosed[st]
  THEN Throw(R, "ErrorForAdd")
  ELSE StreamEmit([Accept(R, st, DataMsg(v)) EXCEPT
                     !.buffer[st] = Append(@, DataMsg(v))], st)

\* Stream.addError
StreamAddError(R, st, v) ==
  IF R.isClosed[st]
  THEN Throw(R, "ErrorForAddError")
  ELSE StreamEmit([Accept(R, st, ErrorMsg(v)) EXCEPT
                     !.buffer[st] = Append(@, ErrorMsg(v))], st)

\* Stream.pause
StreamPause(R, st) ==
  IF ~R.isPaused[st]
  THEN CallEventListeners([R EXCEPT !.isPaused[st] = TRUE], st, "onPause")
  ELSE R

\* Stream.resume
StreamResume(R, st) ==
  IF R.isPaused[st]
  THEN StreamEmit(
         CallEventListeners([R EXCEPT !.isPaused[st] = FALSE], st, "onResume"),
         st)
  ELSE R

\* Stream.close
StreamClose(R, st) ==
  StreamEmit([R EXCEPT !.isClosed[st] = TRUE,
                       !.buffer[st] = Append(@, DoneMsg),
                       !.nDone[st] = @ + 1], st)

----------------------------------------------------------------------------
(* _broadcastStream, _filteringStream and _takeStream                      *)

\* A _broadcastStream.cancel that empties the set of subscribers.
BroadcastCancelAll(R, st, s) ==
  CallEventListeners([R EXCEPT !.subscribers[st] = <<>>], st, "onCancel")

\* _broadcastStream.cancel
BroadcastCancel(R, st, s) ==
  CallEventListeners(
    [R EXCEPT !.subscribers[st] = SelectSeq(@, LAMBDA x : x # s)],
    st, "onCancel")

\* stream.cancel(this), on the class of the stream that owns the subscription
Cancel(R, st, s) ==
  IF R.kind[st] = "broadcast"
  THEN BroadcastCancel(R, st, s)
  ELSE StreamCancel(R, st, s)

\* StreamSubscription.cancel
SubCancel(R, s) == Cancel(R, R.subs[s].stream, s)

\* this._sub?.cancel(); this._sub = null
CancelParentSubscription(R, st) ==
  LET R1 == IF R.psub[st] # NoSub
            THEN SubCancel(NoteCancel(R, R.psub[st], "child"), R.psub[st])
            ELSE R
  IN [R1 EXCEPT !.psub[st] = NoSub]

\* if (!this._sub) this._sub = this.parent.listen(add, {onError, onDone}).
\* The parent of every stream of the topologies below is a base stream.
ListenToParent(R, st) ==
  IF R.psub[st] # NoSub
  THEN R
  ELSE LET R1 == StreamListen(R, ParentOf(st), FALSE, st)
       IN IF R1.exc # "" THEN R1 ELSE [R1 EXCEPT !.psub[st] = R1.ret]

\* _filteringStream.close
FilteringClose(R, st) == StreamClose(CancelParentSubscription(R, st), st)

\* _filteringStream.listen
FilteringListen(R, st, coe) ==
  LET R1 == ListenToParent(R, st)
  IN IF R1.exc # "" THEN R1 ELSE StreamListen(R1, st, coe, 0)

\* A _takeStream.add that never closes.
TakeAddWithoutClose(R, st, v) ==
  IF R.taken[st] < TakeAmount
  THEN LET R0 == StreamAdd(R, st, v)
       IN IF R0.exc # "" THEN R0 ELSE [R0 EXCEPT !.taken[st] = @ + 1]
  ELSE R

\* _takeStream.add
TakeAdd(R, st, v) ==
  LET R1 == IF R.taken[st] < TakeAmount
            THEN LET R0 == StreamAdd(R, st, v)
                 IN IF R0.exc # "" THEN R0
                    ELSE [R0 EXCEPT !.taken[st] = @ + 1]
            ELSE R
  IN IF R1.exc # "" THEN R1
     ELSE IF R1.taken[st] >= TakeAmount THEN FilteringClose(R1, st)
     ELSE R1

\* this.condition(data): a pure function of the value, which returns true or
\* false or throws.
Condition(R, v) == R.verdict[v]

\* A _takeWhileStream.add that republishes the value it stops at.
TakeWhileAddThenStop(R, st, v) ==
  LET R1 == StreamAdd(R, st, v)
  IN IF R1.exc = "" /\ Condition(R, v) = "true"
     THEN R1
     ELSE FilteringClose([R1 EXCEPT !.exc = ""], st)

\* _takeWhileStream.add: the try block holds the call of super.add too, so an
\* exception of super.add is caught like one of the condition.
TakeWhileAdd(R, st, v) ==
  IF Condition(R, v) = "true"
  THEN LET R1 == StreamAdd(R, st, v)
       IN IF R1.exc = "" THEN R1 ELSE FilteringClose(R, st)
  ELSE FilteringClose(R, st)

\* A _skipStream.add that drops one value more.
SkipAddOneMore(R, st, v) ==
  IF R.skipped[st] <= SkipAmount
  THEN [R EXCEPT !.skipped[st] = @ + 1]
  ELSE StreamAdd(R, st, v)

\* _skipStream.add
SkipAdd(R, st, v) ==
  IF R.skipped[st] < SkipAmount
  THEN [R EXCEPT !.skipped[st] = @ + 1]
  ELSE StreamAdd(R, st, v)

\* A _skipWhileStream.add that never leaves the skipping mode.
SkipWhileAddAsFilter(R, st, v) ==
  IF Condition(R, v) = "true" THEN R ELSE StreamAdd(R, st, v)

\* _skipWhileStream.add: the condition is evaluated only while _isSkipping.
SkipWhileAdd(R, st, v) ==
  IF R.isSkipping[st] /\ Condition(R, v) = "true"
  THEN R
  ELSE StreamAdd([R EXCEPT !.isSkipping[st] = FALSE], st, v)

\* A _whereStream.add that republishes the values the condition is false on.
WhereAddAll(R, st, v) ==
  IF Condition(R, v) = "throw"
  THEN Throw(R, "ConditionError")
  ELSE StreamAdd(R, st, v)

\* _whereStream.add: an exception of the condition is not caught.
WhereAdd(R, st, v) ==
  CASE Condition(R, v) = "true" -> StreamAdd(R, st, v)
    [] Condition(R, v) = "false" -> R
    [] OTHER -> Throw(R, "ConditionError")

\* The transform of the streams built by map: a function that is not the
\* identity and keeps values apart (the test's is i => i * i).
Transform(v) == 10 * v

\* A _mapStream.add that republishes the value it was given.
MapAddUntransformed(R, st, v) ==
  IF Condition(R, v) = "throw"
  THEN Throw(R, "TransformError")
  ELSE StreamAdd(R, st, v)

\* _mapStream.add: an exception of the transform is not caught.
MapAdd(R, st, v) ==
  IF Condition(R, v) = "throw"
  THEN Throw(R, "TransformError")
  ELSE StreamAdd(R, st, Transform(v))

\* A _broadcastStream.add that does not look at _isClosed.
BroadcastAddUnguarded(R, st, v) ==
  NextTick(Accept(R, st, DataMsg(v)), FanTask(st, DataMsg(v)))

\* _broadcastStream.add
BroadcastAdd(R, st, v) ==
  IF R.isClosed[st]
  THEN Throw(R, "ErrorForAdd")
  ELSE NextTick(Accept(R, st, DataMsg(v)), FanTask(st, DataMsg(v)))

\* _broadcastStream.addError
BroadcastAddError(R, st, v) ==
  IF R.isClosed[st]
  THEN Throw(R, "ErrorForAddError")
  ELSE NextTick(Accept(R, st, ErrorMsg(v)), FanTask(st, ErrorMsg(v)))

\* _broadcastStream.close
BroadcastClose(R, st) ==
  LET R1 == CancelParentSubscription([R EXCEPT !.isClosed[st] = TRUE], st)
  IN NextTick([R1 EXCEPT !.nDone[st] = @ + 1], FanTask(st, DoneMsg))

\* A _broadcastStream.listen that does not look at isClosed.
BroadcastListenOnly(R, st, coe) ==
  LET R1 == ListenToParent(R, st)
  IN IF R1.exc # "" THEN R1
     ELSE LET R2 == CreateSub(R1, st, coe, 0)
          IN CallEventListeners(
               [R2 EXCEPT !.subscribers[st] = Append(@, R2.ret)],
               st, "onListen")

\* _broadcastStream.listen
BroadcastListen(R, st, coe) ==
  LET R1 == ListenToParent(R, st)
  IN IF R1.exc # "" THEN R1
     ELSE LET R2 == CreateSub(R1, st, coe, 0)
              R3 == CallEventListeners(
                      [R2 EXCEPT !.subscribers[st] = Append(@, R2.ret)],
                      st, "onListen")
          IN IF R3.isClosed[st] THEN BroadcastClose(R3, st) ELSE R3

\* The method a call reaches, by the class of the stream.
Add(R, st, v) ==
  CASE R.kind[st] = "base" -> StreamAdd(R, st, v)
    [] R.kind[st] = "take" -> TakeAdd(R, st, v)
    [] R.kind[st] = "takeWhile" -> TakeWhileAdd(R, st, v)
    [] R.kind[st] = "skip" -> SkipAdd(R, st, v)
    [] R.kind[st] = "skipWhile" -> SkipWhileAdd(R, st, v)
    [] R.kind[st] = "where" -> WhereAdd(R, st, v)
    [] R.kind[st] = "map" -> MapAdd(R, st, v)
    [] R.kind[st] = "broadcast" -> BroadcastAdd(R, st, v)

AddError(R, st, v) ==
  IF R.kind[st] = "broadcast"
  THEN BroadcastAddError(R, st, v)
  ELSE StreamAddError(R, st, v)

Close(R, st) ==
  CASE R.kind[st] = "base" -> StreamClose(R, st)
    [] R.kind[st] = "broadcast" -> BroadcastClose(R, st)
    [] OTHER -> FilteringClose(R, st)

Listen(R, st, coe) ==
  CASE R.kind[st] = "base" -> StreamListen(R, st, coe, 0)
    [] R.kind[st] = "broadcast" -> BroadcastListen(R, st, coe)
    [] OTHER -> FilteringListen(R, st, coe)

\* _broadcastStream.pause and resume are empty.
Pause(R, st) == IF R.kind[st] = "broadcast" THEN R ELSE StreamPause(R, st)

Resume(R, st) == IF R.kind[st] = "broadcast" THEN R ELSE StreamResume(R, st)

----------------------------------------------------------------------------
(* StreamSubscription                                                      *)

\* A StreamSubscription._emit that does not look at _isPaused.
SubscriptionEmitWhilePaused(R, s) == Push(R, EmitFrame(s, R.subs[s].buffer))

\* StreamSubscription._emit: a paused subscription returns at once; otherwise
\* the forEach starts, over the array that is this._buffer now.
SubscriptionEmit(R, s) ==
  IF R.subs[s].isPaused
  THEN R
  ELSE Push(R, EmitFrame(s, R.subs[s].buffer))

\* StreamSubscription.messageHandler
MessageHandler(R, s, m) ==
  SubscriptionEmit([R EXCEPT !.subs[s].buffer = Append(@, m)], s)

\* A StreamSubscription.pause that does not look at _isPaused.
SubPauseUnguarded(R, s) ==
  Pause([R EXCEPT !.subs[s].isPaused = TRUE, !.obs[s].nPause = @ + 1],
        R.subs[s].stream)

\* StreamSubscription.pause
SubPause(R, s) ==
  IF ~R.subs[s].isPaused
  THEN Pause([R EXCEPT !.subs[s].isPaused = TRUE, !.obs[s].nPause = @ + 1],
             R.subs[s].stream)
  ELSE R

\* StreamSubscription.resume
SubResume(R, s) ==
  IF R.subs[s].isPaused
  THEN SubscriptionEmit(
         Resume([R EXCEPT !.subs[s].isPaused = FALSE,
                          !.obs[s].nResume = @ + 1],
                R.subs[s].stream),
         s)
  ELSE R

----------------------------------------------------------------------------
(* The flushes.  A frame of the stack is an active forEach:                *)
(*   tick: Stream._emit's deferred callback, over the stream's buffer;     *)
(*   fan:  a broadcast stream's deferred callback, over its subscribers;   *)
(*   emit: StreamSubscription._emit, over the subscription's buffer; cb    *)
(*         tells that the callback of element i is running.                *)

\* The callbacks of the subscription a derived or broadcast stream c holds on
\* its parent: add, addError and close of c.
Forward(R, c, m) ==
  CASE m.type = "Data" -> Add(R, c, m.data)
    [] m.type = "Error" -> AddError(R, c, m.data)
    [] m.type = "Done" -> Close(R, c)

\* The callback of element i of the top emit frame is invoked.
Invoke(R) ==
  LET f == Top(R)
  IN SetTop([R EXCEPT !.obs[f.s].delivered = Append(@, f.arr[f.i])],
            [f EXCEPT !.cb = TRUE])

\* The rest of the forEach body without the cancel of cancelOnError.
AfterCallbackWithoutCancel(R) ==
  SetTop(R, [Top(R) EXCEPT !.cb = FALSE, !.i = @ + 1])

\* The rest of the forEach body after the callback has returned: a
\* subscription with cancelOnError cancels itself after an Error.
AfterCallback(R) ==
  LET f == Top(R)
      R1 == SetTop(R, [f EXCEPT !.cb = FALSE, !.i = @ + 1])
  IN IF f.arr[f.i].type = "Error" /\ R.subs[f.s].cancelOnError
     THEN SubCancel(NoteCancel(R1, f.s, "error"), f.s)
     ELSE R1

\* The end of StreamSubscription._emit: this._buffer = []
EmitEnd(R) == Pop([R EXCEPT !.subs[Top(R).s].buffer = <<>>])

\* One element of the forEach of Stream._emit's callback: the message goes to
\* the subscription attached now, if any.
TickHand(R) ==
  LET f == Top(R)
      R1 == SetTop(R, [f EXCEPT !.i = @ + 1])
      s == R.subscription[f.st]
  IN IF s # NoSub THEN MessageHandler(R1, s, R.buffer[f.st][f.i]) ELSE R1

\* The end of Stream._emit's callback: the buffer is replaced by an empty one
\* and the subscription of a closed stream is cancelled.
TickEnd(R) ==
  LET st == Top(R).st
      R1 == Pop([R EXCEPT !.buffer[st] = <<>>])
  IN IF R1.isClosed[st] /\ R1.subscription[st] # NoSub
     THEN Cancel(NoteCancel(R1, R1.subscription[st], "close"),
                 st, R1.subscription[st])
     ELSE R1

\* Set.forEach visits, in insertion order, every member that is in the set
\* when its turn comes and has not been visited.
FanNext(R) ==
  LET f == Top(R)
      left == SelectSeq(R.subscribers[f.st], LAMBDA x : x \notin f.visited)
  IN IF left = <<>> THEN NoSub ELSE Head(left)

FanStep(R) ==
  LET f == Top(R)
      s == FanNext(R)
  IN IF s = NoSub
     THEN Pop(R)
     ELSE MessageHandler(SetTop(R, [f EXCEPT !.visited = @ \cup {s}]),
                         s, f.msg)

----------------------------------------------------------------------------
(* Promises: the aggregators every and forEach, and addStream              *)

\* The resolve and reject functions of a promise: the first call settles it,
\* the later ones do nothing.
Fulfill(R, state, v) ==
  IF R.future.state = "pending"
  THEN [R EXCEPT !.future.state = state, !.future.value = v]
  ELSE R

\* cancelAndFulfill(v, sub, fulfill): sub.cancel(); fulfill(v)
CancelAndFulfill(R, s, state, v) ==
  Fulfill(SubCancel(NoteCancel(R, s, "aggregator"), s), state, v)

\* The callbacks every gives to listen, with resolve in the place of reject
\* for a value the condition does not hold on.
EveryCallbacksResolvingFalse(R, s, m) ==
  CASE m.type = "Data" ->
         IF Condition(R, m.data) = "true"
         THEN R
         ELSE CancelAndFulfill(R, s, "resolved", BoolValue(FALSE))
    [] m.type = "Error" ->
         CancelAndFulfill(R, s, "rejected", ErrorValue(m.data))
    [] m.type = "Done" -> Fulfill(R, "resolved", BoolValue(TRUE))

\* The callbacks every gives to listen: onData returns when the condition
\* holds; when it does not, or throws, cancelAndFulfill is given reject.
EveryCallbacks(R, s, m) ==
  CASE m.type = "Data" ->
         IF Condition(R, m.data) = "true"
         THEN R
         ELSE CancelAndFulfill(R, s, "rejected", BoolValue(FALSE))
    [] m.type = "Error" ->
         CancelAndFulfill(R, s, "rejected", ErrorValue(m.data))
    [] m.type = "Done" -> Fulfill(R, "resolved", BoolValue(TRUE))

\* The callbacks forEach gives to listen, without the cancel when the
\* listener throws.
ForEachCallbacksWithoutCancel(R, s, m) ==
  CASE m.type = "Data" ->
         IF Condition(R, m.data) = "throw"
         THEN Fulfill(R, "rejected", ThrownValue(m.data))
         ELSE R
    [] m.type = "Error" ->
         CancelAndFulfill(R, s, "rejected", ErrorValue(m.data))
    [] m.type = "Done" -> Fulfill(R, "resolved", NoValue)

\* The callbacks forEach gives to listen.  What the listener does on a value
\* is the verdict of the value: it throws, or it returns.
ForEachCallbacks(R, s, m) ==
  CASE m.type = "Data" ->
         IF Condition(R, m.data) = "throw"
         THEN CancelAndFulfill(R, s, "rejected", ThrownValue(m.data))
         ELSE R
    [] m.type = "Error" ->
         CancelAndFulfill(R, s, "rejected", ErrorValue(m.data))
    [] m.type = "Done" -> Fulfill(R, "resolved", NoValue)

\* The callbacks addStream gives to listen, resolving on the first message
\* whatever it is.
AddStreamCallbacksResolvingEarly(R, s, m) ==
  LET c == R.subs[s].fwd
  IN CASE m.type = "Data" -> Fulfill(Add(R, c, m.data), "resolved", NoValue)
       [] m.type = "Error" ->
            Fulfill(AddError(R, c, m.data), "resolved", NoValue)
       [] m.type = "Done" -> Fulfill(R, "resolved", NoValue)

\* The callbacks addStream gives to listen: add and addError of the
\* controller, which are those of its _srcStream, and resolve.
AddStreamCallbacks(R, s, m) ==
  LET c == R.subs[s].fwd
  IN CASE m.type = "Data" -> Add(R, c, m.data)
       [] m.type = "Error" ->
            LET R1 == AddError(R, c, m.data)
            IN IF R1.exc = "" /\ R.subs[s].cancelOnError
               THEN Fulfill(R1, "resolved", NoValue)
               ELSE R1
       [] m.type = "Done" -> Fulfill(R, "resolved", NoValue)

\* The callback of subscription s for message m is invoked, s being the
\* subscription a promise was made with.
FutureCallbacks(R, s, m) ==
  LET R1 == [R EXCEPT !.obs[s].delivered = Append(@, m)]
  IN CASE R.future.by = "every" -> EveryCallbacks(R1, s, m)
       [] R.future.by = "forEach" -> ForEachCallbacks(R1, s, m)
       [] R.future.by = "addStream" -> AddStreamCallbacks(R1, s, m)

\* new Promise(executor) around a call of listen: the promise is pending, and
\* is rejected at once when listen throws.
NewFuture(R, by) ==
  IF R.exc = ""
  THEN [R EXCEPT !.future = [by |-> by, s |-> R.ret, state |-> "pending",
                             value |-> NoValue]]
  ELSE [R EXCEPT !.exc = "",
                 !.future = [by |-> by, s |-> NoSub, state |-> "rejected",
                             value |-> ExceptionValue]]

\* Stream.every
Every(R, st) == NewFuture(Listen(R, st, FALSE), "every")

\* Stream.forEach
ForEach(R, st) == NewFuture(Listen(R, st, FALSE), "forEach")

\* StreamController.addStream(stream, options): stream is stream object 1 and
\* the _srcStream of the controller is stream object 2.
AddStream(R, coe) == NewFuture(StreamListen(R, 1, coe, 2), "addStream")

\* new StreamController(): _done is Promise.resolve().
NewController ==
  [by |-> "controller", s |-> NoSub, state |-> "resolved", value |-> NoValue]

\* The reactions fromPromises registers on each promise with then: onData
\* when the promise is fulfilled, onError when it is rejected.
OnSettled(R, i, how) ==
  LET R0 == [R EXCEPT !.promises.inputs[i] = how]
  IN IF R0.isClosed[1]
     THEN R0
     ELSE LET R1 == IF how = "fulfilled"
                    THEN StreamAdd(R0, 1, R0.nextVal)
                    ELSE StreamAddError(R0, 1, R0.nextVal)
              R2 == [R1 EXCEPT !.nextVal = @ + 1,
                               !.verdict = Append(@, "true"),
                               !.promises.count = @ - 1]
          IN IF R2.promises.count = 0 THEN StreamClose(R2, 1) ELSE R2

\* An exception that escapes a nextTick callback is uncaught: the process
\* ends.
Crash(R) == [R EXCEPT !.stack = <<>>, !.crashed = TRUE, !.exc = ""]

\* Runs the code up to the next point where user code runs: the stack is
\* empty, or the callback of a user's listener has been invoked.  The
\* callbacks of the subscription of an aggregator or of addStream are code of
\* the library.
RECURSIVE Run(_)
Run(R) ==
  IF R.stack = <<>>
  THEN R
  ELSE LET f == Top(R)
       IN CASE f.kind = "tick" ->
                 IF f.i <= f.n THEN Run(TickHand(R)) ELSE Run(TickEnd(R))
            [] f.kind = "fan" -> Run(FanStep(R))
            [] f.kind = "emit" ->
                 IF f.cb THEN R
                 ELSE IF f.i > Len(f.arr) THEN Run(EmitEnd(R))
                 ELSE IF f.s = R.future.s
                 THEN LET R1 == FutureCallbacks(R, f.s, f.arr[f.i])
                      IN IF R1.exc # "" THEN Crash(R1)
                         ELSE Run(AfterCallback(R1))
                 ELSE IF R.subs[f.s].fwd = 0 THEN Invoke(R)
                 ELSE LET R1 == Forward(R, R.subs[f.s].fwd, f.arr[f.i])
                      IN IF R1.exc # "" THEN Crash(R1)
                         ELSE Run(AfterCallback(R1))

\* Observation: the fan-out of message m begins on broadcast stream st.
NoteFanOut(R, st, m) ==
  [R EXCEPT !.obs =
     [s \in DOMAIN @ |->
        IF /\ \E k \in DOMAIN R.subscribers[st] : R.subscribers[st][k] = s
           /\ ~R.subs[s].isPaused
        THEN [@[s] EXCEPT !.due = Append(@, m)]
        ELSE @[s]]]

\* The host takes the first callback of the nextTick queue and runs it.
TickStart(R) ==
  LET task == Head(R.queue)
      R1 == [R EXCEPT !.queue = Tail(@)]
  IN CASE task.type = "emit" ->
            Push(R1, TickFrame(task.st, Len(R1.buffer[task.st])))
       [] task.type = "fan" ->
            Push(NoteFanOut(R1, task.st, task.msg),
                 FanFrame(task.st, task.msg))
       [] OTHER -> [R1 EXCEPT !.hookFired[task.st][task.type] = @ + 1]

----------------------------------------------------------------------------
(* The state machine                                                       *)

Commit(R) ==
  /\ kind' = R.kind
  /\ buffer' = R.buffer
  /\ isClosed' = R.isClosed
  /\ isPaused' = R.isPaused
  /\ subscription' = R.subscription
  /\ psub' = R.psub
  /\ subscribers' = R.subscribers
  /\ taken' = R.taken
  /\ skipped' = R.skipped
  /\ isSkipping' = R.isSkipping
  /\ verdict' = R.verdict
  /\ subs' = R.subs
  /\ queue' = R.queue
  /\ stack' = R.stack
  /\ phase' = IF R.stack = <<>> /\ R.queue = <<>> THEN "sync" ELSE R.phase
  /\ crashed' = R.crashed
  /\ obs' = R.obs
  /\ hookFired' = R.hookFired
  /\ accepted' = R.accepted
  /\ nDone' = R.nDone
  /\ nextVal' = R.nextVal
  /\ future' = R.future
  /\ promises' = R.promises
  /\ last' = R.last

\* User code is running: at top level in a synchronous block, or inside the
\* listener callback on top of the stack.
UserCode ==
  /\ ~crashed
  /\ last.n < MaxOps
  /\ \/ stack = <<>> /\ phase = "sync"
     \/ stack # <<>>

\* The subscriptions user code holds: those its own listen calls returned.
\* The subscription of an aggregator is kept inside its promise.
UserSubs == {s \in 1..Len(subs) : subs[s].fwd = 0 /\ s # future.s}

\* User code has called op; R is the state when the call returns or throws.
\* A call that throws is caught by the user code that made it.
\* was tells whether the subscription a pause or resume call is made on was
\* paused when the call was made.
Called(R, op, st, s) ==
  Commit(Run([R EXCEPT
    !.last = [n |-> last.n + 1, op |-> op, st |-> st, s |-> s,
              res |-> IF R.exc = "" THEN "ok" ELSE R.exc,
              was |-> IF op \in {"pause", "resume"}
                      THEN subs[s].isPaused ELSE FALSE],
    !.exc = ""]))

DoListen(st, coe) ==
  /\ UserCode
  /\ LET R == Listen(Cur, st, coe)
     IN Called(R, "listen", st, IF R.exc = "" THEN R.ret ELSE NoSub)

\* The values and errors user code adds are numbered in the order of the
\* calls that were accepted; c is what the condition does on the value.
Fresh(R, c) ==
  IF R.exc = ""
  THEN [R EXCEPT !.nextVal = @ + 1, !.verdict = Append(@, c)]
  ELSE R

\* What a condition or a transform can do on a value, in a topology that has
\* one: a transform returns ("true") or throws.
Outcomes ==
  IF \E st \in Streams : kind[st] \in {"takeWhile", "skipWhile", "where"}
  THEN {"true", "false", "throw"}
  ELSE IF \E st \in Streams : kind[st] = "map"
       THEN {"true", "throw"}
       ELSE {"true"}

DoAdd(st, c) ==
  /\ UserCode
  /\ Called(Fresh(Add(Cur, st, nextVal), c), "add", st, NoSub)

DoAddError(st) ==
  /\ UserCode
  /\ Called(Fresh(AddError(Cur, st, nextVal), "true"), "addError", st, NoSub)

DoClose(st) ==
  /\ UserCode
  /\ Called(Close(Cur, st), "close", st, NoSub)

DoPause(s) ==
  /\ UserCode
  /\ Called(SubPause(Cur, s), "pause", subs[s].stream, s)

DoResume(s) ==
  /\ UserCode
  /\ Called(SubResume(Cur, s), "resume", subs[s].stream, s)

DoCancel(s) ==
  /\ UserCode
  /\ Called(SubCancel(NoteCancel(Cur, s, "user"), s),
            "cancel", subs[s].stream, s)

\* every and forEach are called once in a run, on stream 1.
DoEvery ==
  /\ UserCode
  /\ future.by = ""
  /\ LET R == Every(Cur, 1)
     IN Called(R, "every", 1, R.future.s)

DoForEach ==
  /\ UserCode
  /\ future.by = ""
  /\ LET R == ForEach(Cur, 1)
     IN Called(R, "forEach", 1, R.future.s)

\* The same on stream st, which need not be a base stream.
DoEveryOn(st) ==
  /\ UserCode
  /\ future.by = ""
  /\ LET R == Every(Cur, st)
     IN Called(R, "every", st, R.future.s)

DoForEachOn(st) ==
  /\ UserCode
  /\ future.by = ""
  /\ LET R == ForEach(Cur, st)
     IN Called(R, "forEach", st, R.future.s)

\* addStream is called once in a run.
DoAddStream(coe) ==
  /\ UserCode
  /\ future.by = "controller"
  /\ LET R == AddStream(Cur, coe)
     IN Called(R, "addStream", 2, R.future.s)

\* User code settles a promise it gave to fromPromises and the host runs the
\* reaction registered on it, as a job of its own.  It is counted with the
\* operations of user code.
DoSettle(i, how) ==
  /\ ~crashed
  /\ last.n < MaxOps
  /\ stack = <<>>
  /\ promises.inputs[i] = "pending"
  /\ Called(OnSettled(Cur, i, how), "settle", 1, NoSub)

\* The listener callback on top of the stack returns.
Return ==
  /\ ~crashed
  /\ stack # <<>>
  /\ Commit(Run(AfterCallback(Cur)))

\* The listener callback on top of the stack throws, the callback having been
\* invoked by the flush of the stream: the exception leaves the forEach of
\* StreamSubscription._emit and the forEach of the deferred callback before
\* either _buffer is replaced, and is uncaught.
ThrowInCallback ==
  /\ ~crashed
  /\ Len(stack) = 2
  /\ stack[1].kind = "tick"
  /\ stack[2].kind = "emit" /\ stack[2].cb
  /\ Commit(Crash(Cur))

\* The host has a handler for uncaught exceptions: the program goes on with
\* the next callback of the nextTick queue.
HostContinues ==
  /\ crashed
  /\ crashed' = FALSE
  /\ UNCHANGED <<kind, buffer, isClosed, isPaused, subscription, psub,
                 subscribers, taken, skipped, isSkipping, verdict, subs,
                 queue, stack, phase, obs, hookFired, accepted, nDone,
                 nextVal, future, promises, last>>

\* The synchronous block ends; the nextTick queue is drained before any
\* other user code runs at top level.
EndSync ==
  /\ ~crashed
  /\ stack = <<>>
  /\ phase = "sync"
  /\ queue # <<>>
  /\ phase' = "drain"
  /\ UNCHANGED <<kind, buffer, isClosed, isPaused, subscription, psub,
                 subscribers, taken, skipped, isSkipping, verdict, subs,
                 queue, stack, crashed, obs,
                 hookFired, accepted, nDone, nextVal, future, promises,
                 last>>

Tick ==
  /\ ~crashed
  /\ stack = <<>>
  /\ phase = "drain"
  /\ queue # <<>>
  /\ Commit(Run(TickStart(Cur)))

\* The streams user code calls add, addError and close on: a stream it made
\* itself and a broadcast stream.  A filtering stream is fed by its parent.
Producers == {st \in Streams : kind[st] \in {"base", "broadcast"}}

\* The streams user code listens to.  The parent of a broadcast stream is
\* listened to by the broadcast stream alone (a broadcast controller keeps it
\* private).
Listenable ==
  {st \in Streams : st = Len(kind) \/ kind[Len(kind)] # "broadcast"}

Next ==
  \/ \E st \in Listenable, coe \in BOOLEAN : DoListen(st, coe)
  \/ \E st \in Producers, c \in Outcomes : DoAdd(st, c)
  \/ \E st \in Producers : DoAddError(st)
  \/ \E st \in Producers : DoClose(st)
  \/ \E s \in UserSubs : DoPause(s)
  \/ \E s \in UserSubs : DoResume(s)
  \/ \E s \in UserSubs : DoCancel(s)
  \/ Return
  \/ EndSync
  \/ Tick

\* A stream read by an aggregator: user code adds to the stream and calls
\* every or forEach on it; what the condition or the listener does on a
\* value is chosen when the value is added.
NextAggregate ==
  \/ DoEvery
  \/ DoForEach
  \/ \E c \in {"true", "false", "throw"} : DoAdd(1, c)
  \/ DoAddError(1)
  \/ DoClose(1)
  \/ EndSync
  \/ Tick

\* A broadcast stream read by an aggregator: user code adds to the broadcast
\* stream, which is stream object 2, and calls every or forEach on it.
NextAggregateBroadcast ==
  \/ DoEveryOn(2)
  \/ DoForEachOn(2)
  \/ \E c \in {"true", "false", "throw"} : DoAdd(2, c)
  \/ DoAddError(2)
  \/ DoClose(2)
  \/ EndSync
  \/ Tick

\* A controller and a source stream: user code adds to both, listens to the
\* stream of the controller and gives the source to addStream.
NextController ==
  \/ \E coe \in BOOLEAN : DoAddStream(coe)
  \/ \E coe \in BOOLEAN : DoListen(2, coe)
  \/ \E st \in Streams : DoAdd(st, "true")
  \/ \E st \in Streams : DoAddError(st)
  \/ \E st \in Streams : DoClose(st)
  \/ \E s \in UserSubs : DoCancel(s)
  \/ Return
  \/ EndSync
  \/ Tick

\* The stream fromPromises returned: user code listens to it, and the
\* promises settle one after the other, in any order.
NextFromPromises ==
  \/ \E i \in DOMAIN promises.inputs, how \in {"fulfilled", "rejected"} :
       DoSettle(i, how)
  \/ \E coe \in BOOLEAN : DoListen(1, coe)
  \/ \E s \in UserSubs : DoCancel(s)
  \/ Return
  \/ EndSync
  \/ Tick

\* A base stream whose listener may throw, on a host that goes on after an
\* uncaught exception.
NextThrowing ==
  \/ DoListen(1, FALSE)
  \/ DoAdd(1, "true")
  \/ DoClose(1)
  \/ Return
  \/ ThrowInCallback
  \/ HostContinues
  \/ EndSync
  \/ Tick

\* The state after the streams of a topology have been constructed.  Deriving
\* a stream is one of the operations user code calls.
InitState(kinds, made, f, p) ==
  /\ kind = kinds
  /\ buffer = [st \in DOMAIN kinds |-> <<>>]
  /\ isClosed = [st \in DOMAIN kinds |-> FALSE]
  /\ isPaused = [st \in DOMAIN kinds |-> FALSE]
  /\ subscription = [st \in DOMAIN kinds |-> NoSub]
  /\ psub = [st \in DOMAIN kinds |-> NoSub]
  /\ subscribers = [st \in DOMAIN kinds |-> <<>>]
  /\ taken = [st \in DOMAIN kinds |-> 0]
  /\ skipped = [st \in DOMAIN kinds |-> 0]
  /\ isSkipping = [st \in DOMAIN kinds |-> TRUE]
  /\ verdict = <<>>
  /\ subs = <<>>
  /\ queue = <<>>
  /\ stack = <<>>
  /\ phase = "sync"
  /\ crashed = FALSE
  /\ obs = <<>>
  /\ hookFired = [st \in DOMAIN kinds |-> [h \in HookNames |-> 0]]
  /\ accepted = [st \in DOMAIN kinds |-> <<>>]
  /\ nDone = [st \in DOMAIN kinds |-> 0]
  /\ nextVal = 1
  /\ future = f
  /\ promises = p
  /\ last = [n |-> Len(kinds) - 1, op |-> made, st |-> Len(kinds),
             s |-> NoSub, res |-> "ok", was |-> FALSE]

InitWith(kinds, made) == InitState(kinds, made, NoFuture, NoPromises)

\* new Stream()
Init == InitWith(<<"base">>, "new")

\* new Stream().take(TakeAmount)
InitDerived == InitWith(<<"base", "take">>, "take")

\* new Stream().asBroadcastStream()
InitBroadcast == InitWith(<<"base", "broadcast">>, "asBroadcastStream")

\* new Stream().takeWhile(condition)
InitTakeWhile == InitWith(<<"base", "takeWhile">>, "takeWhile")

\* new Stream().skip(SkipAmount)
InitSkip == InitWith(<<"base", "skip">>, "skip")

\* new Stream().skipWhile(condition)
InitSkipWhile == InitWith(<<"base", "skipWhile">>, "skipWhile")

\* new Stream().where(condition)
InitWhere == InitWith(<<"base", "where">>, "where")

\* new Stream().map(transform)
InitMap == InitWith(<<"base", "map">>, "map")

\* new Stream(), for an aggregator
InitAggregate == InitWith(<<"base">>, "new")

\* new Stream().asBroadcastStream(), for an aggregator
InitAggregateBroadcast ==
  InitWith(<<"base", "broadcast">>, "asBroadcastStream")

\* stream object 1 is new Stream(), the source; stream object 2 is the
\* _srcStream of new StreamController()
InitController ==
  InitState(<<"base", "base">>, "controller", NewController, NoPromises)

\* Stream.fromPromises(promises), when it returns: the loop has counted the
\* promises and registered the reactions, none of which has run.
InitFromPromises ==
  \E n \in 0..MaxPromises :
    InitState(<<"base">>, "fromPromises", NoFuture,
              [count |-> n, inputs |-> [i \in 1..n |-> "pending"]])

Spec == Init /\ [][Next]_vars

SpecDerived == InitDerived /\ [][Next]_vars

SpecBroadcast == InitBroadcast /\ [][Next]_vars

SpecTakeWhile == InitTakeWhile /\ [][Next]_vars

SpecSkip == InitSkip /\ [][Next]_vars

SpecSkipWhile == InitSkipWhile /\ [][Next]_vars

SpecWhere == InitWhere /\ [][Next]_vars

SpecMap == InitMap /\ [][Next]_vars

SpecAggregate == InitAggregate /\ [][NextAggregate]_vars

SpecAggregateBroadcast ==
  InitAggregateBroadcast /\ [][NextAggregateBroadcast]_vars

SpecController == InitController /\ [][NextController]_vars

SpecFromPromises == InitFromPromises /\ [][NextFromPromises]_vars

SpecThrowing == Init /\ [][NextThrowing]_vars

----------------------------------------------------------------------------
(* Helpers of the properties                                               *)

Range(q) == {q[i] : i \in DOMAIN q}

IsPrefix(p, q) == Len(p) <= Len(q) /\ SubSeq(q, 1, Len(p)) = p

\* The Data and Error messages of a sequence of messages, in order.
NonDone(q) == SelectSeq(q, LAMBDA m : m.type # "Done")

NoDuplicates(q) == \A i, j \in DOMAIN q : i # j => q[i] # q[j]

\* The hook callbacks of a stream that are scheduled and have not run.
Pending(st, name) ==
  Len(SelectSeq(queue, LAMBDA task : task.type = name /\ task.st = st))

\* Every nextTick callback has run and no flush is active.
Quiescent == stack = <<>> /\ queue = <<>>

\* The step is a call of user code.
OpStep == last'.n # last.n

\* A flush of subscription s is active.
InFlush(s) == \E k \in DOMAIN stack : stack[k].kind = "emit" /\ stack[k].s = s

----------------------------------------------------------------------------
(* C1.  On a base stream, the messages added before the first listen reach *)
(* the first listener, each once and in the order of the add calls:        *)
(* what its callbacks have seen starts with them, in that order, none of   *)
(* them comes again later, and once the queue has been drained all of them *)
(* have come.  The listener is one that stays attached and does not pause. *)

Backlog(s) == SubSeq(accepted[subs[s].stream], 1, obs[s].before)

C1_BacklogInOrderOnce ==
  (Len(subs) >= 1 /\ obs[1].nPause = 0) =>
    LET seen == NonDone(obs[1].delivered)
        n == Len(Backlog(1))
    IN /\ \A i \in DOMAIN seen :
            IF i <= n THEN seen[i] = Backlog(1)[i]
            ELSE seen[i] \notin Range(Backlog(1))
       /\ (Quiescent /\ obs[1].by \notin {"user", "error"}) => Len(seen) >= n

C1_Witness ==
  /\ Quiescent
  /\ Len(subs) >= 1
  /\ obs[1].nPause = 0
  /\ Len(Backlog(1)) >= 2
  /\ NonDone(obs[1].delivered) = Backlog(1)

----------------------------------------------------------------------------
(* C2.  On a base or derived stream, a listen call made while a            *)
(* subscription is attached throws and changes nothing: the subscription   *)
(* stays attached, no hook is scheduled and no subscription is created, on *)
(* the stream or on its parent.                                            *)

C2_ListenWhileAttachedChangesNothing ==
  [][(/\ OpStep
      /\ last'.op = "listen"
      /\ kind[last'.st] # "broadcast"
      /\ subscription[last'.st] # NoSub)
     => /\ last'.res = "ErrorForListen"
        /\ UNCHANGED <<subscription, psub, subs, queue, buffer, isClosed,
                       isPaused, obs>>]_vars

----------------------------------------------------------------------------
(* C3.  A closed stream, base or broadcast, stays closed, and every add or *)
(* addError call made on it throws and leaves the buffers, the queue, the  *)
(* subscriptions and what they have seen as they were; a closed stream     *)
(* accepts no message from anywhere.                                       *)

C3_ClosedStaysClosedAndRejects ==
  [][/\ \A st \in Streams :
          /\ isClosed[st] => isClosed'[st]
          /\ isClosed[st] => accepted'[st] = accepted[st]
     /\ (/\ OpStep
         /\ last'.op \in {"add", "addError"}
         /\ isClosed[last'.st])
        => /\ last'.res =
                (IF last'.op = "add" THEN "ErrorForAdd" ELSE "ErrorForAddError")
           /\ UNCHANGED <<buffer, queue, subs, obs, accepted, stack>>]_vars

C3_Witness ==
  /\ last.op = "add"
  /\ last.res = "ErrorForAdd"
  /\ kind[last.st] = "broadcast"
  /\ isClosed[1]
  /\ \E s \in UserSubs : obs[s].cancelledAt = -1

----------------------------------------------------------------------------
(* C4.  On a non-broadcast stream at most one Done message is ever         *)
(* produced, a Done in the buffer is its last message, and a subscription  *)
(* sees Done at most once and nothing after it.                            *)

DoneIsLastAndOnce(q) ==
  \A i \in DOMAIN q : q[i].type = "Done" => i = Len(q)

C4_OneDoneAndLast ==
  /\ \A st \in Streams :
       kind[st] # "broadcast" =>
         /\ nDone[st] <= 1
         /\ DoneIsLastAndOnce(buffer[st])
  /\ \A s \in 1..Len(subs) :
       kind[subs[s].stream] # "broadcast" =>
         DoneIsLastAndOnce(obs[s].delivered)

----------------------------------------------------------------------------
(* C5.  No callback of a subscription runs inside add, addError, close or  *)
(* listen: what the subscriptions have seen is the same when the call      *)
(* returns, and no flush has been started.  A callback runs only when the  *)
(* host runs the queue, when the callback before it returns, or inside     *)
(* resume.                                                                 *)

C5_DeliveryIsDeferred ==
  [][/\ (OpStep /\ last'.op \in {"add", "addError", "close", "listen"})
          => /\ \A s \in DOMAIN obs : obs'[s].delivered = obs[s].delivered
             /\ stack' = stack
     /\ (\E s \in DOMAIN obs : obs'[s].delivered # obs[s].delivered)
          => (~OpStep \/ last'.op = "resume")]_vars

C5_Witness ==
  /\ last.op = "add"
  /\ last.res = "ok"
  /\ Len(buffer[1]) >= 2
  /\ subscription[1] # NoSub
  /\ ~isPaused[1]
  /\ obs[subscription[1]].delivered = <<>>

----------------------------------------------------------------------------
(* C6.  After cancel has been called on a subscription, by user code, by   *)
(* cancelOnError or by the stream after its Done, none of its callbacks    *)
(* runs again.                                                             *)

C6_NothingAfterCancel ==
  \A s \in UserSubs :
    obs[s].cancelledAt # -1 => Len(obs[s].delivered) = obs[s].cancelledAt

----------------------------------------------------------------------------
(* C7.  The onCancel hook of a stream fires once for each of its           *)
(* subscriptions that has been cancelled, however often cancel is called:  *)
(* the hooks that have fired or are scheduled are as many as the           *)
(* subscriptions cancelled.                                                *)

C7_OneOnCancelPerSubscription ==
  \A st \in Streams :
    hookFired[st]["onCancel"] + Pending(st, "onCancel") =
      Cardinality({s \in 1..Len(subs) :
                     subs[s].stream = st /\ obs[s].cancelledAt # -1})

----------------------------------------------------------------------------
(* C8.  pause and resume are idempotent, on the subscription and on the    *)
(* stream.  pause on a paused subscription and resume on one that is not   *)
(* paused change nothing at all.  The subscription's onPause (onResume)    *)
(* callback runs once in a call that pauses (resumes) it and not           *)
(* otherwise, and the stream's onPause (onResume) hook is scheduled once   *)
(* in a call that pauses (resumes) the stream and not otherwise.           *)

\* The hook callbacks of a stream that have run or are scheduled.
Scheduled(st, name) == hookFired[st][name] + Pending(st, name)

\* The same, after the step.
ScheduledNext(st, name) ==
  hookFired'[st][name]
    + Len(SelectSeq(queue', LAMBDA task : task.type = name /\ task.st = st))

AllButLast ==
  <<kind, buffer, isClosed, isPaused, subscription, psub, subscribers, taken,
    skipped, isSkipping, verdict,
    subs, queue, stack, phase, crashed, obs, hookFired, accepted, nDone,
    nextVal>>

C8_PauseResumeIdempotent ==
  [][/\ (OpStep /\ last'.op = "pause") =>
          LET s == last'.s
              st == last'.st
          IN /\ subs[s].isPaused => UNCHANGED AllButLast
             /\ obs'[s].nPause =
                  obs[s].nPause + (IF subs[s].isPaused THEN 0 ELSE 1)
             /\ obs'[s].nResume = obs[s].nResume
             /\ ScheduledNext(st, "onPause") =
                  Scheduled(st, "onPause")
                    + (IF ~subs[s].isPaused /\ ~isPaused[st] THEN 1 ELSE 0)
             /\ ScheduledNext(st, "onResume") = Scheduled(st, "onResume")
     /\ (OpStep /\ last'.op = "resume") =>
          LET s == last'.s
              st == last'.st
          IN /\ ~subs[s].isPaused => UNCHANGED AllButLast
             /\ obs'[s].nResume =
                  obs[s].nResume + (IF subs[s].isPaused THEN 1 ELSE 0)
             /\ obs'[s].nPause = obs[s].nPause
             /\ ScheduledNext(st, "onResume") =
                  Scheduled(st, "onResume")
                    + (IF subs[s].isPaused /\ isPaused[st] THEN 1 ELSE 0)
             /\ ScheduledNext(st, "onPause") = Scheduled(st, "onPause")]_vars

\* A subscription was paused twice in a row and then resumed twice in a row.
C8_Witness ==
  /\ last.op = "resume"
  /\ ~last.was
  /\ obs[last.s].nPause = 1
  /\ obs[last.s].nResume = 1
  /\ last.n >= 5
  /\ Scheduled(1, "onPause") = 1
  /\ Scheduled(1, "onResume") = 1

----------------------------------------------------------------------------
(* C9.  While a subscription is paused and none of its flushes is active,  *)
(* no step invokes its callbacks and its buffer only grows at the end: a   *)
(* message that arrives is kept, after the ones already there.  Only a     *)
(* flush that was active when pause was called goes on.                    *)

C9_PausedOnlyAccumulates ==
  [][\A s \in 1..Len(subs) :
       (subs[s].isPaused /\ subs'[s].isPaused /\ ~InFlush(s)) =>
         /\ obs'[s].delivered = obs[s].delivered
         /\ IsPrefix(subs[s].buffer, subs'[s].buffer)]_vars

\* A paused subscription holds a message that reached it after the pause,
\* another one waits in the stream, and it has seen neither.
C9_Witness ==
  /\ Quiescent
  /\ Len(subs) >= 1
  /\ subs[1].isPaused
  /\ Len(subs[1].buffer) >= 1
  /\ Len(buffer[1]) >= 1
  /\ obs[1].delivered = <<>>

----------------------------------------------------------------------------
(* C10.  A message a stream accepted while its subscription was paused is  *)
(* delivered to that subscription exactly once after the resume: such      *)
(* messages are seen at most once each and in the order they were          *)
(* accepted, and once the subscription has been resumed and the queue has  *)
(* been drained all of them have been seen (unless user code or            *)
(* cancelOnError cancelled the subscription).                              *)

Count(q, m) == Len(SelectSeq(q, LAMBDA x : x = m))

C10_HeldDeliveredOnceInOrder ==
  \A s \in UserSubs :
    LET h == obs[s].held
        d == obs[s].delivered
    IN /\ \A i \in DOMAIN h : Count(d, h[i]) <= 1
       /\ IsPrefix(SelectSeq(d, LAMBDA m : m \in Range(h)),
                   SelectSeq(h, LAMBDA m : m \in Range(d)))
       /\ (/\ Quiescent
           /\ ~subs[s].isPaused
           /\ ~isPaused[subs[s].stream]
           /\ obs[s].by \notin {"user", "error"})
          => Range(h) \subseteq Range(d)

----------------------------------------------------------------------------
(* C11.  On a non-broadcast stream, a subscription made by a listen that   *)
(* came after close has its onDone callback invoked: once the queue has    *)
(* been drained, a subscription that was created on a closed stream, was   *)
(* never paused and was not cancelled by user code or by cancelOnError has *)
(* seen Done.                                                              *)

C11_ListenAfterCloseSeesDone ==
  \A s \in UserSubs :
    (/\ kind[subs[s].stream] # "broadcast"
     /\ obs[s].afterClose
     /\ obs[s].nPause = 0
     /\ obs[s].by \notin {"user", "error"}
     /\ Quiescent)
    => DoneMsg \in Range(obs[s].delivered)

----------------------------------------------------------------------------
(* C12.  A broadcast stream delivers every Data or Error message exactly   *)
(* once, in order, to every subscription that is subscribed and not paused *)
(* when the fan-out of the message begins: such a message is seen at most  *)
(* once, these messages are seen in the order of their fan-outs, and once  *)
(* the queue has been drained a subscription that is not paused and was    *)
(* not cancelled has seen all of them.                                     *)

BroadcastSubs == {s \in UserSubs : kind[subs[s].stream] = "broadcast"}

C12_FanOutOnceInOrder ==
  \A s \in BroadcastSubs :
    LET e == NonDone(obs[s].due)
        d == NonDone(obs[s].delivered)
    IN /\ \A i \in DOMAIN e : Count(d, e[i]) <= 1
       /\ IsPrefix(SelectSeq(d, LAMBDA m : m \in Range(e)),
                   SelectSeq(e, LAMBDA m : m \in Range(d)))
       /\ (Quiescent /\ ~subs[s].isPaused /\ obs[s].by = "")
            => Range(e) \subseteq Range(d)

----------------------------------------------------------------------------
(* C13.  A listener of a broadcast stream never receives the value of an   *)
(* add call that had returned when it was attached, whether the add was    *)
(* made on the broadcast stream or on the stream it was made from (the     *)
(* source of a broadcast controller).                                      *)

C13_NoValueAddedBeforeListen ==
  \A s \in BroadcastSubs :
    \A i \in DOMAIN obs[s].delivered :
      obs[s].delivered[i].type = "Data"
        => obs[s].delivered[i].data >= obs[s].born

----------------------------------------------------------------------------
(* C14.  cancel on a subscription of a broadcast stream takes that         *)
(* subscription out of the set of subscribers and leaves every other       *)
(* subscription as it was.  Nothing arrives at a cancelled subscription:   *)
(* it does not come back into the set, its buffer does not grow and what   *)
(* it still sees was in its buffer.  A subscription that was never         *)
(* cancelled and never paused has seen, once the queue has been drained,   *)
(* every message the stream accepted after it was created, and Done if the *)
(* stream is closed.                                                       *)

IsSuffix(p, q) ==
  Len(p) <= Len(q) /\ SubSeq(q, Len(q) - Len(p) + 1, Len(q)) = p

OthersKeepReceiving ==
  \A o \in BroadcastSubs :
    (Quiescent /\ ~crashed /\ obs[o].by = "" /\ obs[o].nPause = 0) =>
      LET st == subs[o].stream
      IN /\ IsSuffix(SubSeq(accepted[st], obs[o].before + 1,
                            Len(accepted[st])),
                     NonDone(obs[o].delivered))
         /\ isClosed[st] => DoneMsg \in Range(obs[o].delivered)

C14_CancelRemovesOnlyThatOne ==
  [][/\ (OpStep /\ last'.op = "cancel" /\ kind[last'.st] = "broadcast") =>
          /\ subscribers'[last'.st] =
               SelectSeq(subscribers[last'.st], LAMBDA x : x # last'.s)
          /\ \A o \in DOMAIN subs :
               o # last'.s => subs'[o] = subs[o] /\ obs'[o] = obs[o]
     /\ \A s \in BroadcastSubs :
          obs[s].cancelledAt # -1 =>
            /\ s \notin Range(subscribers'[subs[s].stream])
            /\ Len(subs'[s].buffer) <= Len(subs[s].buffer)
            /\ \A i \in DOMAIN obs'[s].delivered :
                 i > Len(obs[s].delivered) =>
                   obs'[s].delivered[i] \in Range(subs[s].buffer)
     /\ OthersKeepReceiving']_vars

\* Of two subscribers one was cancelled and has seen nothing; the other has
\* seen a message that was added afterwards.
C14_Witness ==
  /\ Quiescent
  /\ \E s, o \in BroadcastSubs :
       /\ obs[s].by = "user"
       /\ obs[s].delivered = <<>>
       /\ obs[o].by = ""
       /\ obs[o].delivered # <<>>
       /\ obs[o].before = 0

----------------------------------------------------------------------------
(* C15.  A listener attached to a broadcast stream that is already closed  *)
(* has its onDone callback invoked: once the queue has been drained, a     *)
(* subscription that was created on a closed broadcast stream and was      *)
(* neither paused nor cancelled has seen Done.                             *)

C15_ListenOnClosedBroadcastSeesDone ==
  \A s \in BroadcastSubs :
    (/\ obs[s].afterClose
     /\ obs[s].nPause = 0
     /\ obs[s].by = ""
     /\ Quiescent
     /\ ~crashed)
    => DoneMsg \in Range(obs[s].delivered)

\* The broadcast stream closed because its parent closed, and a listener
\* attached afterwards has seen Done.
C15_Witness ==
  /\ Quiescent
  /\ isClosed[1]
  /\ \E s \in BroadcastSubs :
       /\ obs[s].afterClose
       /\ DoneMsg \in Range(obs[s].delivered)
       /\ last.op = "listen"
       /\ last.s = s

----------------------------------------------------------------------------
(* The derived streams.  In the topologies with a derived stream, stream 1 *)
(* is the parent and stream 2 the stream derived from it.                  *)

DataOf(q) == SelectSeq(q, LAMBDA m : m.type = "Data")

\* The values the parent has accepted, in order.
ParentValues == DataOf(accepted[1])

\* The listener of the derived stream that was attached before the parent
\* emitted: the first listen of the run was made on the derived stream, when
\* nothing had been added to the parent and the parent was not closed.  It
\* created subscription 1, of the derived stream to its parent, and
\* subscription 2, of user code to the derived stream.  The listener is looked
\* at as long as it has not been paused.
DerivedListeners ==
  {s \in UserSubs :
     /\ s = 2
     /\ subs[s].stream = 2
     /\ subs[1].fwd = 2
     /\ obs[1].born = 1
     /\ ~obs[1].afterClose
     /\ obs[s].nPause = 0}

\* The queue has been drained and s was not cancelled by user code or by
\* cancelOnError.
Settled(s) ==
  Quiescent /\ ~crashed /\ obs[s].by \notin {"user", "error"}

----------------------------------------------------------------------------
(* C16.  The listener of take(n), attached before the parent emits, sees   *)
(* the first n values of the parent in order and nothing of the later      *)
(* ones, and sees Done at most once and last.  Once the queue has been     *)
(* drained, if the parent has emitted n values or more, or has been        *)
(* closed, the listener has seen all of the first n values the parent      *)
(* emitted (all its values when they are fewer) and Done.                  *)

FirstValues(n) ==
  SubSeq(ParentValues, 1, IF Len(ParentValues) < n THEN Len(ParentValues) ELSE n)

C16_TakeFirstNThenDone ==
  kind[Len(kind)] = "take" =>
    \A s \in DerivedListeners :
      LET d == obs[s].delivered
      IN /\ IsPrefix(DataOf(d), FirstValues(TakeAmount))
         /\ DoneIsLastAndOnce(d)
         /\ (Settled(s) /\ (Len(ParentValues) >= TakeAmount \/ isClosed[1]))
              => /\ DataOf(d) = FirstValues(TakeAmount)
                 /\ DoneMsg \in Range(d)

\* The parent emitted more than n values and the listener has seen the first
\* n of them and Done.
C16_Witness ==
  /\ kind[Len(kind)] = "take"
  /\ Quiescent
  /\ Len(ParentValues) > TakeAmount
  /\ \E s \in DerivedListeners :
       obs[s].delivered = FirstValues(TakeAmount) \o <<DoneMsg>>

----------------------------------------------------------------------------
(* C17.  The listener of takeWhile(condition) sees the parent's values up  *)
(* to, and without, the first one the condition is false on or throws on,  *)
(* in order, and nothing of the later ones; it sees Done at most once and  *)
(* last, and every Error it sees is one the parent accepted.  Once the     *)
(* queue has been drained, if the parent has emitted such a value or has   *)
(* been closed, the listener has seen the whole prefix and Done.           *)

\* The positions of the parent's values the condition is not true on.
Stops ==
  {i \in DOMAIN ParentValues : verdict[ParentValues[i].data] # "true"}

FirstStop == CHOOSE i \in Stops : \A j \in Stops : i <= j

\* The longest prefix of the parent's values the condition is true on.
TruePrefix ==
  IF Stops = {} THEN ParentValues ELSE SubSeq(ParentValues, 1, FirstStop - 1)

----------------------------------------------------------------------------
(* C18.  The listener of skipWhile(condition) sees the parent's values     *)
(* from the first one the condition is false on or throws on, that one     *)
(* included, in order, whatever the condition is on the later ones, and    *)
(* none of the values before it; once the queue has been drained it has    *)
(* seen all of them.                                                       *)

\* The parent's values from the first one the condition is not true on.
AfterTruePrefix ==
  IF Stops = {}
  THEN <<>>
  ELSE SubSeq(ParentValues, FirstStop, Len(ParentValues))

----------------------------------------------------------------------------
(* C19.  The listener of skip(n) sees the parent's values after the first  *)
(* n, in order and once each, and none of the first n; the parent's Errors *)
(* are passed on and are not counted.  Once the queue has been drained it  *)
(* has seen all the values after the n-th and all the Errors.              *)

ErrorsOf(q) == SelectSeq(q, LAMBDA m : m.type = "Error")

AfterSkipped ==
  SubSeq(ParentValues, SkipAmount + 1, Len(ParentValues))

C19_SkipDropsFirstN ==
  kind[Len(kind)] = "skip" =>
    \A s \in DerivedListeners :
      LET d == obs[s].delivered
      IN /\ IsPrefix(DataOf(d), AfterSkipped)
         /\ IsPrefix(ErrorsOf(d), ErrorsOf(accepted[1]))
         /\ Settled(s) => /\ DataOf(d) = AfterSkipped
                          /\ ErrorsOf(d) = ErrorsOf(accepted[1])

\* The parent emitted an Error and then n + 1 values; the listener has seen
\* the Error and the last value.
C19_Witness ==
  /\ kind[Len(kind)] = "skip"
  /\ Quiescent
  /\ Len(accepted[1]) = SkipAmount + 2
  /\ accepted[1][1].type = "Error"
  /\ Len(ParentValues) = SkipAmount + 1
  /\ \E s \in DerivedListeners :
       obs[s].delivered = <<accepted[1][1], ParentValues[SkipAmount + 1]>>

----------------------------------------------------------------------------
(* C20.  The listener of where(condition) sees the parent's values the     *)
(* condition is true on, in the parent's order and once each, and no other *)
(* value; once the queue has been drained it has seen all of them.         *)

Kept == SelectSeq(ParentValues, LAMBDA m : verdict[m.data] = "true")

C20_WhereKeepsTrueValues ==
  kind[Len(kind)] = "where" =>
    \A s \in DerivedListeners :
      /\ IsPrefix(DataOf(obs[s].delivered), Kept)
      /\ Settled(s) => DataOf(obs[s].delivered) = Kept

\* The condition is true on the first and the third value and false on the
\* second; the listener has seen the first and the third.
C20_Witness ==
  /\ kind[Len(kind)] = "where"
  /\ Quiescent
  /\ Len(ParentValues) = 3
  /\ verdict[ParentValues[2].data] = "false"
  /\ \E s \in DerivedListeners :
       obs[s].delivered = <<ParentValues[1], ParentValues[3]>>

----------------------------------------------------------------------------
(* C21.  The listener of map(transform), attached before the parent emits, *)
(* sees transform(v) for every value v of the parent, once each and in the *)
(* parent's order, with every Error of the parent and its Done at the      *)
(* position they have among the parent's messages: what it has seen is     *)
(* always a prefix of the parent's messages with each value transformed,   *)
(* and is all of them once the queue has been drained.                     *)

Mapped(q) ==
  [i \in 1..Len(q) |->
     IF q[i].type = "Data" THEN DataMsg(Transform(q[i].data)) ELSE q[i]]

ParentMessages ==
  accepted[1] \o (IF isClosed[1] THEN <<DoneMsg>> ELSE <<>>)

C21_MapTransformsInOrder ==
  kind[Len(kind)] = "map" =>
    \A s \in DerivedListeners :
      /\ IsPrefix(obs[s].delivered, Mapped(ParentMessages))
      /\ Settled(s) => obs[s].delivered = Mapped(ParentMessages)

\* The parent accepted a value and an Error and was closed; the listener has
\* seen the transformed value, the Error and Done, in this order.
C21_Witness ==
  /\ kind[Len(kind)] = "map"
  /\ Quiescent
  /\ Len(accepted[1]) = 2
  /\ accepted[1][1].type = "Data"
  /\ accepted[1][2].type = "Error"
  /\ \E s \in DerivedListeners :
       obs[s].delivered =
         <<DataMsg(Transform(accepted[1][1].data)), accepted[1][2], DoneMsg>>

----------------------------------------------------------------------------
(* C22.  When the condition of takeWhile or skipWhile throws on a value of *)
(* the parent, the listener of the derived stream does not see that value, *)
(* and its onError handler sees exactly one Error for it, next to the      *)
(* Errors of the parent.  The condition is evaluated on the values up to   *)
(* the first one it is not true on; the property is stated once the queue  *)
(* has been drained.                                                       *)

ConditionThrew ==
  /\ Stops # {}
  /\ verdict[ParentValues[FirstStop].data] = "throw"

C22_ThrowingConditionGivesOneError ==
  kind[Len(kind)] \in {"takeWhile", "skipWhile"} =>
    \A s \in DerivedListeners :
      (Settled(s) /\ ConditionThrew) =>
        LET d == obs[s].delivered
        IN /\ ParentValues[FirstStop] \notin Range(d)
           /\ Len(ErrorsOf(d)) = Len(ErrorsOf(accepted[1])) + 1

----------------------------------------------------------------------------
(* C23.  A listener subscribed with cancelOnError sees nothing after the   *)
(* first Error it is given: the Error is the last message delivered to it, *)
(* whatever the stream or the subscription held behind that Error.         *)

C23_NothingAfterErrorWithCancelOnError ==
  \A s \in UserSubs :
    subs[s].cancelOnError =>
      \A i \in DOMAIN obs[s].delivered :
        obs[s].delivered[i].type = "Error" => i = Len(obs[s].delivered)

----------------------------------------------------------------------------
(* C24.  For a subscription made without cancelOnError, the only one made  *)
(* on its stream, that is neither paused nor cancelled by user code, an    *)
(* Error it is given neither detaches it nor closes the stream, and every  *)
(* message the stream accepts                                              *)
(* after that Error is still delivered to it, in the order of acceptance:  *)
(* once the queue has been drained it has seen all of them, and Done if    *)
(* the stream was closed.  A call of addError on a stream that is not      *)
(* closed does not throw.                                                  *)

\* The messages of q behind the message m.
Behind(q, m) ==
  LET k == CHOOSE i \in DOMAIN q : q[i] = m
  IN SubSeq(q, k + 1, Len(q))

C24_ErrorDoesNotHaltStream ==
  /\ (last.op = "addError" /\ last.res # "ok") => isClosed[last.st]
  /\ \A s \in UserSubs :
       (/\ ~subs[s].cancelOnError
        /\ obs[s].nPause = 0
        /\ obs[s].by # "user"
        /\ Len(subs) = 1) =>
         LET st == subs[s].stream
             d == obs[s].delivered
         IN \A i \in DOMAIN d :
              d[i].type = "Error" =>
                /\ obs[s].by # "error"
                /\ obs[s].by = "" => subscription[st] = s
                /\ ~isClosed[st] => obs[s].by = ""
                /\ IsPrefix(Behind(NonDone(d), d[i]),
                            Behind(accepted[st], d[i]))
                /\ Quiescent =>
                     /\ Behind(NonDone(d), d[i]) = Behind(accepted[st], d[i])
                     /\ isClosed[st] => DoneMsg \in Range(d)

----------------------------------------------------------------------------
(* C30.  A call of cancel() on a subscription that was cancelled earlier,  *)
(* made when another subscription is the active one of the stream, leaves  *)
(* that other subscription attached.                                       *)

StaleCancel ==
  /\ OpStep
  /\ last'.op = "cancel"
  /\ obs[last'.s].by # ""
  /\ subscription[subs[last'.s].stream] \notin {NoSub, last'.s}

C30_StaleCancelKeepsActiveSubscription ==
  [][StaleCancel =>
       subscription'[subs[last'.s].stream] = subscription[subs[last'.s].stream]]_vars

----------------------------------------------------------------------------
(* C29.  Once a derived stream or a broadcast stream is closed, it holds   *)
(* no subscription on its parent and the subscription attached to the      *)
(* parent is not one that forwards to it: the parent hands it no message.  *)

Children == {st \in Streams : kind[st] # "base"}

C29_ClosedChildHoldsNoParentSubscription ==
  \A st \in Children :
    isClosed[st] =>
      /\ psub[st] = NoSub
      /\ LET s == subscription[ParentOf(st)]
         IN s # NoSub => subs[s].fwd # st

----------------------------------------------------------------------------
(* C25.  The promise of every(condition) is settled by what the            *)
(* subscription of every has been given: it is pending as long as every    *)
(* value given had the condition hold and neither an Error nor Done came;  *)
(* it is resolved with true once Done came after such values only; at the  *)
(* first value the condition is false or throws on, the subscription is    *)
(* cancelled, nothing more is given to it, and the promise is rejected     *)
(* with false; at the first Error the subscription is cancelled and the    *)
(* promise is rejected with that Error.                                    *)

\* The positions, among the messages given to the subscription of the
\* aggregator, that end the aggregation with a failure.
Failing(d) ==
  {i \in DOMAIN d :
     \/ d[i].type = "Error"
     \/ d[i].type = "Data" /\ verdict[d[i].data] # "true"}

First(S) == CHOOSE i \in S : \A j \in S : i <= j

\* stateOnFalse is the state the promise takes on a value the condition does
\* not hold on.
EverySettles(stateOnFalse) ==
  (future.by = "every" /\ future.s # NoSub) =>
    LET d == obs[future.s].delivered
    IN IF Failing(d) = {}
       THEN IF DoneMsg \in Range(d)
            THEN future.state = "resolved" /\ future.value = BoolValue(TRUE)
            ELSE future.state = "pending"
       ELSE LET m == d[First(Failing(d))]
            IN /\ First(Failing(d)) = Len(d)
               /\ subscription[1] # future.s
               /\ IF m.type = "Error"
                  THEN /\ future.state = "rejected"
                       /\ future.value = ErrorValue(m.data)
                  ELSE /\ future.state = stateOnFalse
                       /\ future.value = BoolValue(FALSE)

C25_EveryRejectsWithFalse == EverySettles("rejected")

\* The condition held on the first value and not on the second, behind which
\* the stream had accepted a third message: the promise is rejected with
\* false and the third message was not given to the subscription of every.
C25_Witness ==
  /\ future.by = "every"
  /\ Quiescent
  /\ Len(accepted[1]) = 3
  /\ obs[future.s].delivered = <<accepted[1][1], accepted[1][2]>>
  /\ accepted[1][1].type = "Data"
  /\ accepted[1][2].type = "Data"
  /\ verdict[accepted[1][2].data] # "true"
  /\ future.state = "rejected"
  /\ future.value = BoolValue(FALSE)

\* The statement with the promise resolved with false on such a value.
C25_EveryResolvesFalse == EverySettles("resolved")

----------------------------------------------------------------------------
(* C26.  forEach(fn) invokes fn once for every value of the stream, in the *)
(* order the stream accepted them, and its promise is resolved when Done   *)
(* comes.  At the first value fn throws on the promise is rejected with    *)
(* what fn threw, at the first Error with that Error; the subscription is  *)
(* cancelled and fn is not invoked for any later value, the values the     *)
(* stream had already buffered behind it included.                         *)

\* The positions, among the messages given to the subscription of forEach,
\* that end it with a failure.
Rejecting(d) ==
  {i \in DOMAIN d :
     \/ d[i].type = "Error"
     \/ d[i].type = "Data" /\ verdict[d[i].data] = "throw"}

C26_ForEachInOrderUntilFailure ==
  (future.by = "forEach" /\ future.s # NoSub) =>
    LET d == obs[future.s].delivered
    IN /\ IsPrefix(NonDone(d), accepted[1])
       /\ IF Rejecting(d) = {}
          THEN /\ IF DoneMsg \in Range(d)
                  THEN /\ future.state = "resolved"
                       /\ NonDone(d) = accepted[1]
                  ELSE future.state = "pending"
               /\ Quiescent =>
                    /\ NonDone(d) = accepted[1]
                    /\ isClosed[1] => DoneMsg \in Range(d)
          ELSE LET m == d[First(Rejecting(d))]
               IN /\ First(Rejecting(d)) = Len(d)
                  /\ subscription[1] # future.s
                  /\ future.state = "rejected"
                  /\ future.value = IF m.type = "Error"
                                    THEN ErrorValue(m.data)
                                    ELSE ThrownValue(m.data)

\* Three values were added before forEach was called; fn returned on the
\* first and threw on the second: it was not invoked for the third.
C26_Witness ==
  /\ future.by = "forEach"
  /\ Quiescent
  /\ obs[future.s].before = 3
  /\ Len(accepted[1]) = 3
  /\ accepted[1][3].type = "Data"
  /\ obs[future.s].delivered = <<accepted[1][1], accepted[1][2]>>
  /\ accepted[1][1].type = "Data"
  /\ future.state = "rejected"
  /\ future.value = ThrownValue(accepted[1][2].data)

----------------------------------------------------------------------------
(* C27.  addStream(source) gives every Data and every Error the source     *)
(* hands to its subscription to add and addError of the controller, in     *)
(* the order of the source: the messages of the source among those the     *)
(* stream of the controller has accepted are those given to the            *)
(* subscription, in order, as long as no call of add or addError threw.    *)
(* Without cancelOnError the promise addStream returned, which is also     *)
(* controller.done, is resolved only when the source has given Done, every *)
(* earlier message of the source being forwarded by then; it is resolved   *)
(* once Done was given.  Before addStream is called, controller.done is    *)
(* resolved.                                                               *)

\* The messages of the source among those the controller's stream accepted.
Forwarded == SelectSeq(accepted[2], LAMBDA m : m \in Range(accepted[1]))

C27_AddStreamForwardsThenResolves ==
  /\ future.by = "controller" => future.state = "resolved"
  /\ (future.by = "addStream" /\ future.s # NoSub) =>
       LET s == future.s
           d == obs[s].delivered
       IN /\ IsPrefix(Forwarded, NonDone(d))
          /\ IsPrefix(NonDone(d), accepted[1])
          /\ (~crashed /\ ~InFlush(s)) => Forwarded = NonDone(d)
          /\ ~subs[s].cancelOnError =>
               /\ future.state \in {"pending", "resolved"}
               /\ future.state = "resolved" <=> DoneMsg \in Range(d)
               /\ future.state = "resolved" =>
                    /\ isClosed[1]
                    /\ Forwarded = accepted[1]
               /\ (Quiescent /\ ~crashed /\ isClosed[1]) =>
                    future.state = "resolved"

\* The source accepted a value and an Error and was closed; both are among
\* the messages of the controller's stream, in this order, and the promise
\* is resolved.
C27_Witness ==
  /\ future.by = "addStream"
  /\ future.s # NoSub
  /\ ~subs[future.s].cancelOnError
  /\ Quiescent
  /\ Len(accepted[1]) = 2
  /\ accepted[1][1].type = "Data"
  /\ accepted[1][2].type = "Error"
  /\ accepted[2] = accepted[1]
  /\ future.state = "resolved"

----------------------------------------------------------------------------
(* C28.  The stream of fromPromises has accepted one Data per promise that *)
(* was fulfilled and one Error per promise that was rejected, and it is    *)
(* closed, by one call of close, exactly when every promise has settled:   *)
(* not before, and also when there is no promise at all.                   *)

Inputs(how) == {i \in DOMAIN promises.inputs : promises.inputs[i] = how}

C28_FromPromisesClosesWhenAllSettled ==
  /\ Len(DataOf(accepted[1])) = Cardinality(Inputs("fulfilled"))
  /\ Len(ErrorsOf(accepted[1])) = Cardinality(Inputs("rejected"))
  /\ isClosed[1] <=> Inputs("pending") = {}
  /\ nDone[1] = IF isClosed[1] THEN 1 ELSE 0

\* The same for the iterables that hold a promise at least.
FromPromisesOfSome ==
  promises.inputs # <<>> => C28_FromPromisesClosesWhenAllSettled

----------------------------------------------------------------------------
(* C31.  On a base stream no accepted Data or Error message is discarded   *)
(* from the outbound buffer without having been handed to a subscription:  *)
(* each one is still in the buffer of the stream, or is in the buffer of a *)
(* subscription, or has come to the callbacks of a subscription.  This     *)
(* covers a message added inside a listener callback during a flush, and   *)
(* the messages not yet handed when the subscription is cancelled in the   *)
(* middle of a flush.                                                      *)

Handed(s) == Range(subs[s].buffer) \cup Range(obs[s].delivered)

C31_NoAcceptedMessageDiscarded ==
  \A m \in Range(accepted[1]) :
    \/ m \in Range(buffer[1])
    \/ \E s \in 1..Len(subs) : m \in Handed(s)

----------------------------------------------------------------------------
(* C32.  The paused flag of a base stream is true only while the           *)
(* subscription attached to it is paused: a stream is not left paused by   *)
(* the cancel of a paused subscription, so that a listener attached later  *)
(* is not kept from the buffered and the newly added messages.             *)

C32_PausedOnlyWithPausedSubscription ==
  isPaused[1] =>
    /\ subscription[1] # NoSub
    /\ subs[subscription[1]].isPaused

----------------------------------------------------------------------------
(* C33.  The onDone callback of a subscriber of a broadcast stream is      *)
(* invoked at most once, whatever the operations: close called again, and  *)
(* further listeners subscribing after the stream was closed.  It is       *)
(* stated of the subscribers that were never paused.                       *)

C33_BroadcastDoneAtMostOnce ==
  \A s \in BroadcastSubs :
    obs[s].nPause = 0 => Count(obs[s].delivered, DoneMsg) <= 1

----------------------------------------------------------------------------
(* C34.  A broadcast stream is never paused: its isPaused is always false  *)
(* and its onPause and onResume hooks are never scheduled.  A subscriber   *)
(* that pauses stops its own delivery only: once the queue has been        *)
(* drained, every subscriber that is not paused now and was not cancelled  *)
(* has seen each message the stream accepted since it subscribed, once and *)
(* in order, whether it or another subscriber was paused meanwhile.        *)

AcceptedSince(s) ==
  SubSeq(accepted[subs[s].stream], obs[s].before + 1,
         Len(accepted[subs[s].stream]))

C34_BroadcastNeverPaused ==
  /\ \A st \in Streams :
       kind[st] = "broadcast" =>
         /\ ~isPaused[st]
         /\ Scheduled(st, "onPause") = 0
         /\ Scheduled(st, "onResume") = 0
  /\ \A s \in BroadcastSubs :
       (Quiescent /\ ~crashed /\ obs[s].by = "" /\ ~subs[s].isPaused) =>
         /\ IsSuffix(AcceptedSince(s), NonDone(obs[s].delivered))
         /\ \A m \in Range(AcceptedSince(s)) : Count(obs[s].delivered, m) = 1

----------------------------------------------------------------------------
(* C35.  When the promise of a terminal aggregator (every, forEach) on a   *)
(* base or a broadcast stream is resolved or rejected, the subscription    *)
(* the aggregator made is detached from the stream: it is not the          *)
(* subscription of the base stream and not among the subscribers of the    *)
(* broadcast stream, whether the promise was settled on Done, on an Error, *)
(* on a value or on a throwing callback.                                   *)

Attached(s) ==
  \/ subscription[subs[s].stream] = s
  \/ s \in Range(subscribers[subs[s].stream])

C35_SettledAggregatorIsDetached ==
  (/\ future.by \in {"every", "forEach"}
   /\ future.s # NoSub
   /\ future.state # "pending")
  => ~Attached(future.s)

----------------------------------------------------------------------------
(* C36.  addStream(source, {cancelOnError: true}): the first Error the     *)
(* source hands over is the last message the subscription sees; it is      *)
(* given to addError of the controller, the promise addStream returned is  *)
(* resolved and the subscription is cancelled, so that no Data or Error    *)
(* the source accepts later comes to the controller.  Until that Error the *)
(* promise is resolved by Done only.  It is stated of the runs in which    *)
(* addError of the controller did not throw.                               *)

C36_AddStreamStopsAtFirstError ==
  (/\ future.by = "addStream"
   /\ future.s # NoSub
   /\ subs[future.s].cancelOnError)
  => LET s == future.s
         d == obs[s].delivered
     IN /\ \A i \in DOMAIN d : d[i].type = "Error" => i = Len(d)
        /\ IsPrefix(Forwarded, NonDone(d))
        /\ (~crashed /\ ~InFlush(s)) =>
             /\ Forwarded = NonDone(d)
             /\ future.state = "resolved"
                  <=> \E i \in DOMAIN d : d[i].type \in {"Error", "Done"}
             /\ ErrorsOf(d) # <<>> =>
                  /\ subscription[1] # s
                  /\ obs[s].by = "error"

\* The source accepted a value, an Error and a value more: the controller
\* has accepted the first value and the Error, the promise is resolved and
\* the source is open.
C36_Witness ==
  /\ future.by = "addStream"
  /\ future.s # NoSub
  /\ subs[future.s].cancelOnError
  /\ Quiescent
  /\ ~isClosed[1]
  /\ Len(accepted[1]) = 3
  /\ accepted[1][1].type = "Data"
  /\ accepted[1][2].type = "Error"
  /\ accepted[2] = SubSeq(accepted[1], 1, 2)
  /\ future.state = "resolved"

----------------------------------------------------------------------------
(* C38.  Cancelling the subscription of a derived stream also cancels the  *)
(* subscription the derived stream holds on its parent: when user code has *)
(* cancelled the listener of the derived stream and no other is attached,  *)
(* the derived stream holds no subscription on its parent and the          *)
(* subscription attached to the parent, if any, is not one that feeds the  *)
(* derived stream.                                                         *)

C38_CancelReachesParent ==
  \A s \in UserSubs :
    LET st == subs[s].stream
    IN (/\ kind[st] \notin {"base", "broadcast"}
        /\ obs[s].by = "user"
        /\ subscription[st] = NoSub)
       => /\ psub[st] = NoSub
          /\ \/ subscription[ParentOf(st)] = NoSub
             \/ subs[subscription[ParentOf(st)]].fwd # st

----------------------------------------------------------------------------
(* C40.  Pausing the subscription of a derived stream also pauses its      *)
(* parent: while the listener attached to the derived stream is paused,    *)
(* the parent is paused, so that it hands nothing to the derived stream,   *)
(* and the onPause hook of the parent has been scheduled.                  *)

C40_PauseReachesParent ==
  \A s \in UserSubs :
    LET st == subs[s].stream
    IN (/\ kind[st] \notin {"base", "broadcast"}
        /\ subscription[st] = s
        /\ subs[s].isPaused)
       => /\ isPaused[ParentOf(st)]
          /\ Scheduled(ParentOf(st), "onPause") > 0

----------------------------------------------------------------------------
(* C39.  The onListen hook of a listen has run before any message comes to *)
(* the subscription that listen made: when a subscription has seen a       *)
(* message, the onListen hook of its stream has run as many times at least *)
(* as listens had succeeded on the stream when the subscription was made,  *)
(* its own included.                                                       *)

ListenRank(s) ==
  Cardinality({t \in 1..s : subs[t].stream = subs[s].stream})

C39_OnListenBeforeFirstMessage ==
  \A s \in UserSubs :
    obs[s].delivered # <<>> =>
      hookFired[subs[s].stream]["onListen"] >= ListenRank(s)

----------------------------------------------------------------------------
(* C37.  When a listener callback run inside the flush of a stream throws, *)
(* the messages handed to the subscription before the throw are not handed *)
(* again by a later flush: no listener is called with the same Data or     *)
(* Error message twice.                                                    *)

C37_NoMessageTwiceAfterThrow ==
  \A s \in UserSubs : NoDuplicates(NonDone(obs[s].delivered))

====
